---- MODULE Spec2Model ----
(***************************************************************************)
(* Model of netw.Connection (src/netw/connection.go): one websocket        *)
(* connection with its reader goroutine, its writer goroutine, callers of  *)
(* SendMsg and callers of Stop, the RWMutex embedded in the Connection,    *)
(* the buffered channel msgChan and the lifecycle context.                 *)
(***************************************************************************)
EXTENDS Integers, Sequences, FiniteSets, TLC

\* ---------------------------------------------------------------- bounds
\* capacity of msgChan (global.Config.MaxMsgChanLen)
MaxMsgChanLen == 1
\* number of SendMsg calls made over a run (each call carries a fresh frame)
MaxSends == 3
\* number of Stop calls made by callers other than the reader goroutine
MaxStops == 1
\* number of frames the client delivers to ReadMessage
MaxReads == 2
\* largest clock value (seconds) in the connection model
MaxClock == 1
\* largest clock value (seconds) in the heartbeat model
MaxNow == 34
\* number of workers when the worker pool is on (global.Config.WorkerPoolSize)
MaxWorkers == 2

\* seconds of the heartbeat window: time.Second * 30
HeartbeatWindow == 30

\* ---------------------------------------------------------------- names
None == "none"
Reader == "reader"
Admin == "admin"
\* goroutines that call SendMsg; a caller makes its calls one after another
Senders == {"s1"}
\* goroutines that can call Stop: the reader (label Wrr) and an outside caller
Stoppers == {Reader, Admin}
ConnID == 1
\* the value received from a closed, drained channel
NilData == 0

VARIABLES
  startPc,        \* position of Start()
  cancelled,      \* c.ctx is done (c.cancel has been called)
  connOpen,       \* c.Conn has not been closed
  msgChan,        \* frames buffered in c.msgChan
  chanClosed,     \* close(c.msgChan) has happened
  isClosed,       \* c.isClosed
  registry,       \* connection ids held by the connection manager
  wmu,            \* goroutine that owns the write side of the RWMutex
  rlocks,         \* goroutines holding a read lock
  HeartbeatTime,  \* c.HeartbeatTime
  now,            \* the last reading of time.Now()
  rPc,            \* position of StartReader
  rFrame,         \* number of the frame ReadMessage last returned, 0 if none
  reads,          \* calls of ReadMessage that returned
  rdFailed,       \* the reader left its loop through Wrr
  handed,         \* frames handed to the MsgHandler, in order
  hbUpdates,      \* frames for which SetPingTime ran
  wPc,            \* position of StartWriter
  wData,          \* frame the writer received and is writing
  wFailed,        \* WriteMessage returned an error
  wire,           \* frames written to the transport, in order
  takenLog,       \* frames the writer received from msgChan, in order
  enqLog,         \* frames pushed on msgChan, in order
  sPc,            \* position of each SendMsg caller
  sFrame,         \* frame of each caller's current call
  sResult,        \* what each caller's last call returned
  sAfterStop,     \* the caller's latest call began after a Stop had returned
  nextFrame,      \* number of the next frame to send
  stPc,           \* position of each Stop caller inside Stop()
  stopCalls,      \* Stop calls made by the outside caller
  stopReturned,   \* some Stop call has returned
  tornDown,       \* a Stop call that ran the teardown has returned
  onStartCalls,   \* calls of CallOnConnStart
  onStopCalls,    \* calls of CallOnConnStop
  cancelCalls,    \* calls of c.cancel
  connCloseCalls, \* calls of c.Conn.Close
  chanCloseCalls, \* calls of close(c.msgChan)
  closedSets,     \* assignments isClosed = true
  removeCalls,    \* calls of GetConnMgr().Remove
  hbQuery,        \* last IsHeartbeatTimeout call: elapsed seconds and result
  WorkerPoolSize, \* global.Config.WorkerPoolSize: 0 = no worker pool
  taskQueue,      \* requests waiting in each worker's task queue, in order
  spawned,        \* requests given to a goroutine of their own, not yet begun
  begun           \* frames whose handler has begun, in order of beginning

connVars == <<cancelled, connOpen, msgChan, chanClosed, isClosed, registry>>
lockVars == <<wmu, rlocks>>
timeVars == <<HeartbeatTime, now, hbQuery>>
readerVars == <<rPc, rFrame, reads, rdFailed, handed, hbUpdates>>
writerVars == <<wPc, wData, wFailed, wire, takenLog>>
sendVars == <<sPc, sFrame, sResult, sAfterStop, nextFrame, enqLog>>
stopVars == <<stPc, stopCalls, stopReturned, tornDown>>
countVars == <<onStopCalls, cancelCalls, connCloseCalls, chanCloseCalls,
               closedSets, removeCalls>>
startVars == <<startPc, onStartCalls>>
dispatchVars == <<WorkerPoolSize, taskQueue, spawned, begun>>
vars == <<connVars, lockVars, timeVars, readerVars, writerVars, sendVars,
          stopVars, countVars, startVars, dispatchVars>>

\* ---------------------------------------------------------------- Init
\* NewConnection: isClosed false, HeartbeatTime = time.Now(), empty msgChan.
\* The server has put the connection in the connection manager.
NewConnection ==
  /\ startPc = "ctx"
  /\ cancelled = FALSE
  /\ connOpen = TRUE
  /\ msgChan = <<>>
  /\ chanClosed = FALSE
  /\ isClosed = FALSE
  /\ registry = {ConnID}
  /\ wmu = None
  /\ rlocks = {}
  /\ rPc = "idle"
  /\ rFrame = 0
  /\ reads = 0
  /\ rdFailed = FALSE
  /\ handed = <<>>
  /\ hbUpdates = 0
  /\ wPc = "idle"
  /\ wData = NilData
  /\ wFailed = FALSE
  /\ wire = <<>>
  /\ takenLog = <<>>
  /\ enqLog = <<>>
  /\ sPc = [s \in Senders |-> "idle"]
  /\ sFrame = [s \in Senders |-> 0]
  /\ sResult = [s \in Senders |-> None]
  /\ sAfterStop = [s \in Senders |-> FALSE]
  /\ nextFrame = 1
  /\ stPc = [p \in Stoppers |-> "idle"]
  /\ stopCalls = 0
  /\ stopReturned = FALSE
  /\ tornDown = FALSE
  /\ onStartCalls = 0
  /\ onStopCalls = 0
  /\ cancelCalls = 0
  /\ connCloseCalls = 0
  /\ chanCloseCalls = 0
  /\ closedSets = 0
  /\ removeCalls = 0
  /\ hbQuery = [asked |-> FALSE, elapsed |-> 0, timeout |-> FALSE]
  \* configuration read by the reader: worker pool off, or on with MaxWorkers
  /\ WorkerPoolSize \in {0, MaxWorkers}
  /\ taskQueue = [w \in 0..(MaxWorkers - 1) |-> <<>>]
  /\ spawned = {}
  /\ begun = <<>>

Init ==
  /\ NewConnection
  /\ now = 0
  /\ HeartbeatTime = 0

\* ---------------------------------------------------------------- Start
\* c.ctx, c.cancel = context.WithCancel(context.Background())
StartCtx ==
  /\ startPc = "ctx"
  /\ startPc' = "spawnR"
  /\ UNCHANGED <<dispatchVars,
                 connVars, lockVars, timeVars, readerVars, writerVars,
                 sendVars, stopVars, countVars, onStartCalls>>

\* go c.StartReader()
StartSpawnReader ==
  /\ startPc = "spawnR"
  /\ startPc' = "spawnW"
  /\ rPc' = "check"
  /\ UNCHANGED <<dispatchVars,
                 connVars, lockVars, timeVars, rFrame, reads, rdFailed, handed,
                 hbUpdates, writerVars, sendVars, stopVars, countVars,
                 onStartCalls>>

\* go c.StartWriter()
StartSpawnWriter ==
  /\ startPc = "spawnW"
  /\ startPc' = "hook"
  /\ wPc' = "select"
  /\ UNCHANGED <<dispatchVars,
                 connVars, lockVars, timeVars, readerVars, wData, wFailed,
                 wire, takenLog, sendVars, stopVars, countVars, onStartCalls>>

\* global.Server.CallOnConnStart(c)
StartHook ==
  /\ startPc = "hook"
  /\ startPc' = "done"
  /\ onStartCalls' = onStartCalls + 1
  /\ UNCHANGED <<dispatchVars,
                 connVars, lockVars, timeVars, readerVars, writerVars,
                 sendVars, stopVars, countVars>>

\* ---------------------------------------------------------------- clock
\* time.Now(): the values a reading of the clock can return when the last
\* reading returned t (the clock does not run backwards), up to a horizon
TimeNow(t, horizon) == t..horizon

\* ---------------------------------------------------------------- Stop
\* Stop() returns to its caller; the reader goroutine ends after its Stop.
StopReturns(p) ==
  /\ stPc' = [stPc EXCEPT ![p] = "idle"]
  /\ stopReturned' = TRUE
  /\ rPc' = IF p = Reader THEN "done" ELSE rPc

\* a caller other than the reader goroutine calls c.Stop()
StopCall ==
  /\ startPc # "ctx"
  /\ stPc[Admin] = "idle"
  /\ stopCalls < MaxStops
  /\ stPc' = [stPc EXCEPT ![Admin] = "lock"]
  /\ stopCalls' = stopCalls + 1
  /\ UNCHANGED <<dispatchVars,
                 connVars, lockVars, timeVars, readerVars, writerVars,
                 sendVars, stopReturned, tornDown, countVars, startVars>>

\* c.Lock(), first half: take the writer side; later RLock calls now wait
StopLock(p) ==
  /\ stPc[p] = "lock"
  /\ wmu = None
  /\ wmu' = p
  /\ stPc' = [stPc EXCEPT ![p] = "wait"]
  /\ UNCHANGED <<dispatchVars,
                 connVars, rlocks, timeVars, readerVars, writerVars, sendVars,
                 stopCalls, stopReturned, tornDown, countVars, startVars>>

\* ConnMgr.Remove(c): deletes the entry of c's id, no-op if absent
Remove(reg, id) == reg \ {id}

\* ConnMgr.Get(id): found or not
Get(reg, id) == id \in reg

\* StopHookCheck without the isClosed test: every Stop call tears down
StopHookNoCheck(p) ==
  /\ stPc[p] = "wait"
  /\ rlocks = {}
  /\ onStopCalls' = onStopCalls + 1
  /\ stPc' = [stPc EXCEPT ![p] = "cancel"]
  /\ UNCHANGED <<dispatchVars,
                 connVars, lockVars, timeVars, readerVars, writerVars,
                 sendVars, stopCalls, stopReturned, tornDown, cancelCalls,
                 connCloseCalls, chanCloseCalls, closedSets, removeCalls,
                 startVars>>

\* c.Lock(), second half: every read lock is released and the lock is granted;
\* global.Server.CallOnConnStop(c); if c.isClosed == true { return }
\* (deferred c.Unlock())
StopHookCheck(p) ==
  /\ stPc[p] = "wait"
  /\ rlocks = {}
  /\ onStopCalls' = onStopCalls + 1
  /\ IF isClosed
       THEN /\ StopReturns(p)
            /\ wmu' = None
       ELSE /\ stPc' = [stPc EXCEPT ![p] = "cancel"]
            /\ UNCHANGED <<wmu, stopReturned, rPc>>
  /\ UNCHANGED <<dispatchVars,
                 connVars, rlocks, timeVars, rFrame, reads, rdFailed, handed,
                 hbUpdates, writerVars, sendVars, stopCalls, tornDown,
                 cancelCalls, connCloseCalls, chanCloseCalls, closedSets,
                 removeCalls, startVars>>

\* c.cancel()
StopCancel(p) ==
  /\ stPc[p] = "cancel"
  /\ cancelled' = TRUE
  /\ cancelCalls' = cancelCalls + 1
  /\ stPc' = [stPc EXCEPT ![p] = "connclose"]
  /\ UNCHANGED <<dispatchVars,
                 connOpen, msgChan, chanClosed, isClosed, registry, lockVars,
                 timeVars, readerVars, writerVars, sendVars, stopCalls,
                 stopReturned, tornDown, onStopCalls, connCloseCalls,
                 chanCloseCalls, closedSets, removeCalls, startVars>>

\* StopConnClose that leaves the transport open
StopConnCloseKeepsOpen(p) ==
  /\ stPc[p] = "connclose"
  /\ connCloseCalls' = connCloseCalls + 1
  /\ stPc' = [stPc EXCEPT ![p] = "chanclose"]
  /\ UNCHANGED <<dispatchVars, connVars, lockVars, timeVars, readerVars,
                 writerVars, sendVars, stopCalls, stopReturned, tornDown,
                 onStopCalls, cancelCalls, chanCloseCalls, closedSets,
                 removeCalls, startVars>>

\* c.Conn.Close()
StopConnClose(p) ==
  /\ stPc[p] = "connclose"
  /\ connOpen' = FALSE
  /\ connCloseCalls' = connCloseCalls + 1
  /\ stPc' = [stPc EXCEPT ![p] = "chanclose"]
  /\ UNCHANGED <<dispatchVars,
                 cancelled, msgChan, chanClosed, isClosed, registry, lockVars,
                 timeVars, readerVars, writerVars, sendVars, stopCalls,
                 stopReturned, tornDown, onStopCalls, cancelCalls,
                 chanCloseCalls, closedSets, removeCalls, startVars>>

\* StopFinish without the call of GetConnMgr().Remove(c)
StopFinishNoRemove(p) ==
  /\ stPc[p] = "chanclose"
  /\ chanCloseCalls' = chanCloseCalls + 1
  /\ wmu' = None
  /\ IF chanClosed
       THEN /\ stPc' = [stPc EXCEPT ![p] = "panic"]
            /\ UNCHANGED <<chanClosed, isClosed, closedSets, tornDown,
                           stopReturned, rPc>>
       ELSE /\ chanClosed' = TRUE
            /\ isClosed' = TRUE
            /\ closedSets' = closedSets + 1
            /\ tornDown' = TRUE
            /\ StopReturns(p)
  /\ UNCHANGED <<dispatchVars,
                 cancelled, connOpen, msgChan, registry, removeCalls, rlocks,
                 timeVars, rFrame, reads, rdFailed, handed, hbUpdates,
                 writerVars, sendVars, stopCalls, onStopCalls, cancelCalls,
                 connCloseCalls, startVars>>

\* close(c.msgChan); c.isClosed = true; GetConnMgr().Remove(c); return
\* (deferred c.Unlock()). Closing a closed channel panics: the deferred Unlock
\* runs and the rest of Stop does not.
StopFinish(p) ==
  /\ stPc[p] = "chanclose"
  /\ chanCloseCalls' = chanCloseCalls + 1
  /\ wmu' = None
  /\ IF chanClosed
       THEN /\ stPc' = [stPc EXCEPT ![p] = "panic"]
            /\ UNCHANGED <<chanClosed, isClosed, closedSets, registry,
                           removeCalls, tornDown, stopReturned, rPc>>
       ELSE /\ chanClosed' = TRUE
            /\ isClosed' = TRUE
            /\ closedSets' = closedSets + 1
            /\ registry' = Remove(registry, ConnID)
            /\ removeCalls' = removeCalls + 1
            /\ tornDown' = TRUE
            /\ StopReturns(p)
  /\ UNCHANGED <<dispatchVars,
                 cancelled, connOpen, msgChan, rlocks, timeVars, rFrame, reads,
                 rdFailed, handed, hbUpdates, writerVars, sendVars, stopCalls,
                 onStopCalls, cancelCalls, connCloseCalls, startVars>>

\* one step of c.Stop() by goroutine p
Stop(p) ==
  \/ StopLock(p)
  \/ StopHookCheck(p)
  \/ StopCancel(p)
  \/ StopConnClose(p)
  \/ StopFinish(p)

\* ---------------------------------------------------------------- SendMsg
\* SendMsg returns res to its caller
SendReturns(s, res) ==
  /\ sPc' = [sPc EXCEPT ![s] = "idle"]
  /\ sResult' = [sResult EXCEPT ![s] = res]
  /\ sFrame' = [sFrame EXCEPT ![s] = 0]
  /\ UNCHANGED sAfterStop

\* a handler or any other goroutine calls c.SendMsg(msgID, data)
SendCall(s) ==
  /\ startPc # "ctx"
  /\ sPc[s] = "idle"
  /\ nextFrame <= MaxSends
  /\ sPc' = [sPc EXCEPT ![s] = "rlock"]
  /\ sFrame' = [sFrame EXCEPT ![s] = nextFrame]
  /\ sResult' = [sResult EXCEPT ![s] = None]
  /\ sAfterStop' = [sAfterStop EXCEPT ![s] = stopReturned]
  /\ nextFrame' = nextFrame + 1
  /\ UNCHANGED <<dispatchVars,
                 connVars, lockVars, timeVars, readerVars, writerVars, enqLog,
                 stopVars, countVars, startVars>>

\* SendCheck without the isClosed test
SendNoClosedCheck(s) ==
  /\ sPc[s] = "rlock"
  /\ wmu = None
  /\ \E packOk \in BOOLEAN :
       IF packOk
         THEN /\ sPc' = [sPc EXCEPT ![s] = "push"]
              /\ rlocks' = rlocks \cup {s}
              /\ UNCHANGED <<sResult, sFrame, sAfterStop>>
         ELSE /\ SendReturns(s, "packerr")
              /\ UNCHANGED rlocks
  /\ UNCHANGED <<dispatchVars,
                 connVars, wmu, timeVars, readerVars, writerVars, nextFrame,
                 enqLog, stopVars, countVars, startVars>>

\* SendCheck where a Pack error also cancels the connection's context
SendPackErrorCancels(s) ==
  /\ sPc[s] = "rlock"
  /\ wmu = None
  /\ IF isClosed
       THEN /\ SendReturns(s, "closed")
            /\ UNCHANGED <<rlocks, cancelled>>
       ELSE \E packOk \in BOOLEAN :
              IF packOk
                THEN /\ sPc' = [sPc EXCEPT ![s] = "push"]
                     /\ rlocks' = rlocks \cup {s}
                     /\ UNCHANGED <<sResult, sFrame, sAfterStop, cancelled>>
                ELSE /\ SendReturns(s, "packerr")
                     /\ cancelled' = TRUE
                     /\ UNCHANGED rlocks
  /\ UNCHANGED <<dispatchVars,
                 connOpen, msgChan, chanClosed, isClosed, registry, wmu,
                 timeVars, readerVars, writerVars, nextFrame, enqLog, stopVars,
                 countVars, startVars>>

\* SendCheck that gives the read lock back before the channel send
SendCheckDropsRLock(s) ==
  /\ sPc[s] = "rlock"
  /\ wmu = None
  /\ IF isClosed
       THEN SendReturns(s, "closed")
       ELSE \E packOk \in BOOLEAN :
              IF packOk
                THEN /\ sPc' = [sPc EXCEPT ![s] = "push"]
                     /\ UNCHANGED <<sResult, sFrame, sAfterStop>>
                ELSE SendReturns(s, "packerr")
  /\ UNCHANGED <<dispatchVars, connVars, lockVars, timeVars, readerVars,
                 writerVars, nextFrame, enqLog, stopVars, countVars,
                 startVars>>

\* c.RLock(); if c.isClosed { return error }; dp.Pack(...): on error return
\* error; otherwise go on to the channel send with the read lock held.
\* RLock waits while a goroutine owns the write side of the mutex.
SendCheck(s) ==
  /\ sPc[s] = "rlock"
  /\ wmu = None
  /\ IF isClosed
       THEN /\ SendReturns(s, "closed")
            /\ UNCHANGED rlocks
       ELSE \E packOk \in BOOLEAN :
              IF packOk
                THEN /\ sPc' = [sPc EXCEPT ![s] = "push"]
                     /\ rlocks' = rlocks \cup {s}
                     /\ UNCHANGED <<sResult, sFrame, sAfterStop>>
                ELSE /\ SendReturns(s, "packerr")
                     /\ UNCHANGED rlocks
  /\ UNCHANGED <<dispatchVars,
                 connVars, wmu, timeVars, readerVars, writerVars, nextFrame,
                 enqLog, stopVars, countVars, startVars>>

\* SendPush that reports success without enqueuing when the channel is full
SendPushDropsWhenFull(s) ==
  /\ sPc[s] = "push"
  /\ IF chanClosed
       THEN /\ sPc' = [sPc EXCEPT ![s] = "panic"]
            /\ UNCHANGED <<msgChan, enqLog, sResult, sFrame, sAfterStop>>
       ELSE /\ msgChan' = IF Len(msgChan) < MaxMsgChanLen
                            THEN Append(msgChan, sFrame[s])
                            ELSE msgChan
            /\ enqLog' = Append(enqLog, sFrame[s])
            /\ SendReturns(s, "ok")
  /\ rlocks' = rlocks \ {s}
  /\ UNCHANGED <<dispatchVars, cancelled, connOpen, chanClosed, isClosed,
                 registry, wmu, timeVars, readerVars, writerVars, nextFrame,
                 stopVars, countVars, startVars>>

\* c.msgChan <- msg; return nil   (deferred c.RUnlock())
\* blocks while the channel is full; a send on a closed channel panics
SendPush(s) ==
  /\ sPc[s] = "push"
  /\ IF chanClosed
       THEN /\ sPc' = [sPc EXCEPT ![s] = "panic"]
            /\ UNCHANGED <<msgChan, enqLog, sResult, sFrame, sAfterStop>>
       ELSE /\ Len(msgChan) < MaxMsgChanLen
            /\ msgChan' = Append(msgChan, sFrame[s])
            /\ enqLog' = Append(enqLog, sFrame[s])
            /\ SendReturns(s, "ok")
  /\ rlocks' = rlocks \ {s}
  /\ UNCHANGED <<dispatchVars,
                 cancelled, connOpen, chanClosed, isClosed, registry, wmu,
                 timeVars, readerVars, writerVars, nextFrame, stopVars,
                 countVars, startVars>>

\* one step of c.SendMsg by caller s
SendMsg(s) ==
  \/ SendCheck(s)
  \/ SendPush(s)

\* ---------------------------------------------------------------- StartWriter
\* WriterRecv that reads the head of the channel without taking it out
WriterRecvNoDequeue ==
  /\ wPc = "select"
  /\ msgChan # <<>> \/ chanClosed
  /\ IF msgChan # <<>>
       THEN /\ wData' = Head(msgChan)
            /\ takenLog' = Append(takenLog, Head(msgChan))
       ELSE /\ wData' = NilData
            /\ UNCHANGED takenLog
  /\ wPc' = "write"
  /\ UNCHANGED <<dispatchVars,
                 connVars, lockVars, timeVars, readerVars, wFailed, wire,
                 sendVars, stopVars, countVars, startVars>>

\* select, case data := <-c.msgChan: a buffered frame, or the zero value once
\* the channel is closed and drained
WriterRecv ==
  /\ wPc = "select"
  /\ msgChan # <<>> \/ chanClosed
  /\ IF msgChan # <<>>
       THEN /\ wData' = Head(msgChan)
            /\ msgChan' = Tail(msgChan)
            /\ takenLog' = Append(takenLog, Head(msgChan))
       ELSE /\ wData' = NilData
            /\ UNCHANGED <<msgChan, takenLog>>
  /\ wPc' = "write"
  /\ UNCHANGED <<dispatchVars,
                 cancelled, connOpen, chanClosed, isClosed, registry, lockVars,
                 timeVars, readerVars, wFailed, wire, sendVars, stopVars,
                 countVars, startVars>>

\* select, case <-c.ctx.Done(): return
WriterDone ==
  /\ wPc = "select"
  /\ cancelled
  /\ wPc' = "done"
  /\ UNCHANGED <<dispatchVars,
                 connVars, lockVars, timeVars, readerVars, wData, wFailed,
                 wire, takenLog, sendVars, stopVars, countVars, startVars>>

\* c.Conn.WriteMessage(messageType, data); on error: log and return.
\* A write on a closed transport fails; a write on an open one may fail.
WriterWrite ==
  /\ wPc = "write"
  /\ \E ok \in (IF connOpen THEN BOOLEAN ELSE {FALSE}) :
       IF ok
         THEN /\ wire' = Append(wire, wData)
              /\ wPc' = "select"
              /\ UNCHANGED wFailed
         ELSE /\ wFailed' = TRUE
              /\ wPc' = "done"
              /\ UNCHANGED wire
  /\ wData' = NilData
  /\ UNCHANGED <<dispatchVars,
                 connVars, lockVars, timeVars, readerVars, takenLog,
                 sendVars, stopVars, countVars, startVars>>

StartWriter ==
  \/ WriterRecv
  \/ WriterDone
  \/ WriterWrite

\* ---------------------------------------------------------------- StartReader
\* select { case <-c.ctx.Done(): return; default: ... }
ReaderCheck ==
  /\ rPc = "check"
  /\ rPc' = IF cancelled THEN "done" ELSE "read"
  /\ UNCHANGED <<dispatchVars,
                 connVars, lockVars, timeVars, rFrame, reads, rdFailed, handed,
                 hbUpdates, writerVars, sendVars, stopVars, countVars,
                 startVars>>

\* ReaderRead where an Unpack error does not leave the loop
ReaderReadIgnoresUnpackError ==
  /\ rPc = "read"
  /\ \E res \in {"ok", "bad", "err"} :
       /\ res \in {"ok", "bad"} => (connOpen /\ reads < MaxReads)
       /\ reads' = IF res = "err" THEN reads ELSE reads + 1
       /\ rFrame' = IF res = "err" THEN 0 ELSE reads + 1
       /\ rdFailed' = (rdFailed \/ res # "ok")
       /\ IF res \in {"ok", "bad"}
            THEN /\ rPc' = "ping"
                 /\ UNCHANGED stPc
            ELSE /\ rPc' = "stop"
                 /\ stPc' = [stPc EXCEPT ![Reader] = "lock"]
  /\ UNCHANGED <<dispatchVars,
                 connVars, lockVars, timeVars, handed, hbUpdates, writerVars,
                 sendVars, stopCalls, stopReturned, tornDown, countVars,
                 startVars>>

\* c.Conn.ReadMessage() then Packet().Unpack(msgData):
\*   "ok"  a frame was read and decoded,
\*   "bad" a frame was read and Unpack failed (goto Wrr),
\*   "err" ReadMessage failed (goto Wrr).
\* A read on a closed transport fails; a read on an open one may fail.
\* Wrr: c.Stop()
ReaderRead ==
  /\ rPc = "read"
  /\ \E res \in {"ok", "bad", "err"} :
       /\ res \in {"ok", "bad"} => (connOpen /\ reads < MaxReads)
       /\ reads' = IF res = "err" THEN reads ELSE reads + 1
       /\ rFrame' = IF res = "err" THEN 0 ELSE reads + 1
       /\ IF res = "ok"
            THEN /\ rPc' = "ping"
                 /\ UNCHANGED <<rdFailed, stPc>>
            ELSE /\ rPc' = "stop"
                 /\ rdFailed' = TRUE
                 /\ stPc' = [stPc EXCEPT ![Reader] = "lock"]
  /\ UNCHANGED <<dispatchVars,
                 connVars, lockVars, timeVars, handed, hbUpdates, writerVars,
                 sendVars, stopCalls, stopReturned, tornDown, countVars,
                 startVars>>

\* c.SetPingTime(): c.Lock(), first half
ReaderPingLock ==
  /\ rPc = "ping"
  /\ wmu = None
  /\ wmu' = Reader
  /\ rPc' = "pingw"
  /\ UNCHANGED <<dispatchVars,
                 connVars, rlocks, timeVars, rFrame, reads, rdFailed, handed,
                 hbUpdates, writerVars, sendVars, stopVars, countVars,
                 startVars>>

\* SetPingTime that does not store the time it read
SetPingTimeKeepsOld ==
  /\ rPc = "pingw"
  /\ rlocks = {}
  /\ \E t \in TimeNow(now, MaxClock) : now' = t
  /\ hbUpdates' = hbUpdates + 1
  /\ wmu' = None
  /\ rPc' = "dispatch"
  /\ UNCHANGED <<dispatchVars, connVars, rlocks, HeartbeatTime, hbQuery,
                 rFrame, reads, rdFailed, handed, writerVars, sendVars,
                 stopVars, countVars, startVars>>

\* c.SetPingTime(): lock granted; c.HeartbeatTime = time.Now(); c.Unlock()
SetPingTime ==
  /\ rPc = "pingw"
  /\ rlocks = {}
  /\ \E t \in TimeNow(now, MaxClock) :
       /\ now' = t
       /\ HeartbeatTime' = t
  /\ hbUpdates' = hbUpdates + 1
  /\ wmu' = None
  /\ rPc' = "dispatch"
  /\ UNCHANGED <<dispatchVars,
                 connVars, rlocks, hbQuery, rFrame, reads, rdFailed,
                 handed, writerVars, sendVars, stopVars, countVars, startVars>>

\* the worker that serves a connection: its id modulo the pool size
WorkerOf(id) == id % WorkerPoolSize

\* ReaderDispatch that starts a goroutine per request whatever the pool size
ReaderDispatchAlwaysSpawns ==
  /\ rPc = "dispatch"
  /\ handed' = Append(handed, rFrame)
  /\ spawned' = spawned \cup {rFrame}
  /\ rPc' = "check"
  /\ UNCHANGED <<WorkerPoolSize, taskQueue, begun, connVars, lockVars,
                 timeVars, rFrame, reads, rdFailed, hbUpdates, writerVars,
                 sendVars, stopVars, countVars, startVars>>

\* if global.Config.WorkerPoolSize > 0 { c.MsgHandler.SendMsgToTaskQueue(&req) }
\* else { go c.MsgHandler.DoMsgHandler(&req) }; the reader goes on to its
\* next loop iteration
ReaderDispatch ==
  /\ rPc = "dispatch"
  /\ handed' = Append(handed, rFrame)
  /\ IF WorkerPoolSize > 0
       THEN /\ taskQueue' = [taskQueue EXCEPT
                               ![WorkerOf(ConnID)] = Append(@, rFrame)]
            /\ UNCHANGED spawned
       ELSE /\ spawned' = spawned \cup {rFrame}
            /\ UNCHANGED taskQueue
  /\ rPc' = "check"
  /\ UNCHANGED <<WorkerPoolSize, begun, connVars, lockVars, timeVars,
                 rFrame, reads, rdFailed,
                 hbUpdates, writerVars, sendVars, stopVars, countVars,
                 startVars>>

StartReader ==
  \/ ReaderCheck
  \/ ReaderRead
  \/ ReaderPingLock
  \/ SetPingTime
  \/ ReaderDispatch

\* ---------------------------------------------------------------- MsgHandler
\* a worker of the pool takes the oldest request of its task queue and calls
\* DoMsgHandler on it
WorkerTakes(w) ==
  /\ taskQueue[w] # <<>>
  /\ begun' = Append(begun, Head(taskQueue[w]))
  /\ taskQueue' = [taskQueue EXCEPT ![w] = Tail(@)]
  /\ UNCHANGED <<WorkerPoolSize, spawned, connVars, lockVars, timeVars,
                 readerVars, writerVars, sendVars, stopVars, countVars,
                 startVars>>

\* the goroutine started for request f begins DoMsgHandler
HandlerBegins(f) ==
  /\ f \in spawned
  /\ begun' = Append(begun, f)
  /\ spawned' = spawned \ {f}
  /\ UNCHANGED <<WorkerPoolSize, taskQueue, connVars, lockVars, timeVars,
                 readerVars, writerVars, sendVars, stopVars, countVars,
                 startVars>>

MsgHandler ==
  \/ \E w \in 0..(MaxWorkers - 1) : WorkerTakes(w)
  \/ \E f \in 1..MaxReads : HandlerBegins(f)

\* ---------------------------------------------------------------- Start
Start ==
  \/ StartCtx
  \/ StartSpawnReader
  \/ StartSpawnWriter
  \/ StartHook

\* ---------------------------------------------------------------- heartbeat
\* time.Now().Before(c.HeartbeatTime.Add(time.Second * 30)) => timeout = true
IsHeartbeatTimeout(t, hb) == t < hb + HeartbeatWindow

\* a liveness monitor calls c.IsHeartbeatTimeout(): c.RLock(), read the
\* clock, compare, c.RUnlock()
HeartbeatQuery ==
  /\ wmu = None
  /\ \E t \in TimeNow(now, MaxNow) :
       /\ now' = t
       /\ hbQuery' = [asked |-> TRUE, elapsed |-> t - HeartbeatTime,
                      timeout |-> IsHeartbeatTimeout(t, HeartbeatTime)]
  /\ UNCHANGED <<dispatchVars,
                 connVars, lockVars, HeartbeatTime, readerVars, writerVars,
                 sendVars, stopVars, countVars, startVars>>

\* a connection created at any time up to MaxNow whose last heartbeat lies
\* anywhere between its creation and the present
InitHeartbeat ==
  /\ NewConnection
  /\ now \in 0..MaxNow
  /\ HeartbeatTime \in 0..now

NextHeartbeat == HeartbeatQuery

SpecHeartbeat == InitHeartbeat /\ [][NextHeartbeat]_vars

\* ---------------------------------------------------------------- inbound path
\* the inbound half of a connection together with the message handler that
\* receives its requests: Start, the reader, Stop, and the handlers
NextDispatch ==
  \/ Start
  \/ StartReader
  \/ StopCall
  \/ \E p \in Stoppers : Stop(p)
  \/ MsgHandler

SpecDispatch == Init /\ [][NextDispatch]_vars

\* ---------------------------------------------------------------- the connection
Next ==
  \/ Start
  \/ StartReader
  \/ StartWriter
  \/ StopCall
  \/ \E p \in Stoppers : Stop(p)
  \/ \E s \in Senders : SendCall(s)
  \/ \E s \in Senders : SendMsg(s)

Spec == Init /\ [][Next]_vars

\* Every goroutine that can take a step eventually takes one.  A call of
\* ReadMessage on an open transport returns only when the peer sends or the
\* connection breaks, so ReaderRead is fair only once the transport is
\* closed; calls of Stop and SendMsg from outside are never forced.
Fairness ==
  /\ WF_vars(Start)
  /\ WF_vars(StartWriter)
  /\ WF_vars(ReaderCheck \/ ReaderPingLock \/ SetPingTime \/ ReaderDispatch)
  /\ WF_vars(~connOpen /\ ReaderRead)
  /\ \A p \in Stoppers : WF_vars(Stop(p))
  /\ \A s \in Senders : WF_vars(SendMsg(s))

FairSpec == Spec /\ Fairness

TypeOK ==
  /\ Len(msgChan) <= MaxMsgChanLen
  /\ WorkerPoolSize \in {0, MaxWorkers}
  /\ spawned \subseteq 1..MaxReads
  /\ Len(begun) <= MaxReads
  /\ wmu \in {None, Reader, Admin}
  /\ rlocks \subseteq Senders

\* ---------------------------------------------------------------- helpers
Range(seq) == {seq[i] : i \in 1..Len(seq)}

IsPrefix(a, b) == Len(a) <= Len(b) /\ SubSeq(b, 1, Len(a)) = a

NoDuplicates(seq) == \A i, j \in 1..Len(seq) : seq[i] = seq[j] => i = j

\* ---------------------------------------------------------------- properties

\* C1: however many times Stop() is invoked on the connection, the
\* on-disconnect hook CallOnConnStop runs exactly once in total: never more
\* than once, and once as soon as any Stop call has returned.
C1_OnStopHookOnce ==
  /\ onStopCalls <= 1
  /\ stopReturned => onStopCalls = 1

\* C2: over any number and interleaving of Stop() calls, c.cancel(),
\* c.Conn.Close(), close(c.msgChan) and ConnMgr.Remove(c) each run at most
\* once, and exactly once when a Stop call has returned; isClosed is set to
\* true once and is true from then on.
C2_TeardownOnce ==
  /\ cancelCalls <= 1 /\ cancelled = (cancelCalls = 1)
  /\ connCloseCalls <= 1 /\ connOpen = (connCloseCalls = 0)
  /\ chanCloseCalls <= 1 /\ chanClosed = (chanCloseCalls = 1)
  /\ removeCalls <= 1
  /\ closedSets <= 1 /\ isClosed = (closedSets = 1)
  /\ stopReturned =>
       /\ cancelCalls = 1 /\ connCloseCalls = 1 /\ chanCloseCalls = 1
       /\ removeCalls = 1 /\ closedSets = 1

\* two Stop calls have run the hook, the connection is closed and both callers
\* are back
C2_Witness ==
  /\ onStopCalls >= 2
  /\ isClosed
  /\ \A p \in Stoppers : stPc[p] = "idle"

\* C3: a SendMsg call that began after some Stop() call had returned never
\* reaches the channel send (so it neither blocks on the channel, nor panics,
\* nor enqueues), and what it returns is the "connection closed" error.
C3_SendAfterStop ==
  \A s \in Senders :
    sAfterStop[s] =>
      /\ sPc[s] \in {"rlock", "idle"}
      /\ sPc[s] = "idle" => sResult[s] = "closed"

\* a call that began after a Stop had returned has come back
C3_Witness ==
  \E s \in Senders : sAfterStop[s] /\ sPc[s] = "idle" /\ sResult[s] = "closed"

\* C4: a SendMsg blocked on the full channel is always released in the end;
\* in particular the sender and a Stop() call never wait on each other with
\* nothing left that could free either: the sender holding its read lock on a
\* full channel that no writer goroutine drains any more, and Stop() waiting
\* for that read lock before it can close the channel.
C4_BlockedSendReleased ==
  ~ \E s \in Senders, p \in Stoppers :
      /\ sPc[s] = "push"
      /\ ~chanClosed
      /\ Len(msgChan) = MaxMsgChanLen
      /\ wPc = "done"
      /\ stPc[p] = "wait"
      /\ wmu = p

C6_WriteFailureStops ==
  (wPc = "done" /\ wFailed) => isClosed

\* C7: after a ReadMessage or Unpack error the reader reads no more: it is in
\* Stop() or has ended after it; the frame that failed to decode was not
\* handed to the MsgHandler, and SetPingTime ran for the handed frames only.
C7_ReadErrorStops ==
  rdFailed =>
    /\ rPc \in {"stop", "done"}
    /\ rPc = "stop" => stPc[Reader] # "idle"
    /\ rPc = "done" => stopReturned
    /\ rFrame \notin Range(handed)
    /\ hbUpdates = Len(handed)
    /\ Len(handed) = reads - (IF rFrame = 0 THEN 0 ELSE 1)

\* a frame was handed on, the next one failed to decode and the reader's
\* Stop() has returned
C7_Witness ==
  /\ rdFailed
  /\ rFrame # 0
  /\ handed # <<>>
  /\ rPc = "done"

\* C8: IsHeartbeatTimeout() answers true exactly when more than the window of
\* 30 seconds has passed since HeartbeatTime.
C8_TimeoutIffWindowExceeded ==
  hbQuery.asked => (hbQuery.timeout <=> hbQuery.elapsed > HeartbeatWindow)

\* C9: a SendMsg step that returns the Pack error leaves the connection as it
\* was and open: nothing is pushed on msgChan, isClosed stays false, the
\* context is not cancelled, the transport is not closed.
C9_PackErrorIsLocal ==
  [][\A s \in Senders :
       (sPc[s] = "rlock" /\ sPc'[s] = "idle" /\ sResult'[s] = "packerr") =>
         /\ UNCHANGED <<connVars, enqLog, lockVars, countVars>>
         /\ ~isClosed' /\ ~cancelled' /\ connOpen' /\ ~chanClosed']_vars

\* a call has returned the Pack error and the connection is open
C9_Witness ==
  /\ \E s \in Senders : sPc[s] = "idle" /\ sResult[s] = "packerr"
  /\ ~isClosed /\ ~cancelled /\ connOpen

\* C10: once a Stop() call that ran the teardown has returned, the connection
\* manager no longer finds the connection's id.
C10_RemovedAfterStop ==
  tornDown => ~Get(registry, ConnID)

\* the teardown has run while a SendMsg call was under way
C10_Witness ==
  /\ tornDown
  /\ removeCalls = 1
  /\ \E s \in Senders : sPc[s] = "rlock"

\* ---------------------------------------------------------------- C11
\* C11: the reader hands frames over in arrival order.  With the worker pool
\* on, every request of the connection goes to the task queue of one worker,
\* so the handlers begin in exactly the order the frames were handed over:
\* the frames begun followed by the frames still queued are the frames handed
\* over.  With the worker pool off, every request is given to a goroutine of
\* its own and nothing is queued; each handed frame is either waiting in its
\* goroutine or has begun once.
C11_DispatchOrder ==
  /\ \A i, j \in 1..Len(handed) : i < j => handed[i] < handed[j]
  /\ WorkerPoolSize > 0 =>
       /\ spawned = {}
       /\ handed = begun \o taskQueue[WorkerOf(ConnID)]
       /\ \A w \in DOMAIN taskQueue :
            w # WorkerOf(ConnID) => taskQueue[w] = <<>>
  /\ WorkerPoolSize = 0 =>
       /\ \A w \in DOMAIN taskQueue : taskQueue[w] = <<>>
       /\ NoDuplicates(begun)
       /\ Range(handed) = Range(begun) \cup spawned
       /\ Range(begun) \cap spawned = {}

\* worker-pool mode: two frames were handed over and both handlers have begun
C11_Witness ==
  /\ WorkerPoolSize > 0
  /\ handed = <<1, 2>>
  /\ begun = <<1, 2>>

\* ---------------------------------------------------------------- C12
\* C12: msgChan never holds more than MaxMsgChanLen frames, and while the
\* connection is not closed every frame SendMsg accepted is accounted for:
\* the accepted frames are the frames the writer took followed by the frames
\* still queued, and every taken frame is in the writer's hand on its way to
\* WriteMessage, was written, or was the frame of the failed WriteMessage.
C12_BoundedNoDrop ==
  /\ Len(msgChan) <= MaxMsgChanLen
  /\ ~isClosed =>
       /\ enqLog = takenLog \o msgChan
       /\ IsPrefix(wire, takenLog)
       /\ Len(takenLog) = Len(wire) + (IF wPc = "write" THEN 1 ELSE 0)
                                    + (IF wFailed THEN 1 ELSE 0)
       /\ wPc = "write" => wData = takenLog[Len(takenLog)]

\* the connection is open, one frame went out, the channel is full again and
\* a further SendMsg waits for room
C12_Witness ==
  /\ ~isClosed
  /\ Len(wire) >= 1
  /\ Len(msgChan) = MaxMsgChanLen
  /\ \E s \in Senders : sPc[s] = "push"

\* ---------------------------------------------------------------- C13
\* C13: no SendMsg sends on the closed msgChan.  A SendMsg that passed the
\* isClosed test holds the read lock until its send is done, and the channel
\* is still open while it waits to send.  Stop() tears down with the write
\* lock held and no read lock out, so whenever no Stop() is between c.cancel()
\* and c.isClosed = true, a closed transport or a closed channel comes with
\* isClosed = true.
C13_NoSendOnClosed ==
  /\ \A s \in Senders :
       /\ sPc[s] # "panic"
       /\ sPc[s] = "push" => (s \in rlocks /\ ~chanClosed /\ ~isClosed)
  /\ \A p \in Stoppers :
       stPc[p] \in {"cancel", "connclose", "chanclose"} =>
         (wmu = p /\ rlocks = {})
  /\ (\A p \in Stoppers : stPc[p] \notin {"cancel", "connclose", "chanclose"})
       => ((~connOpen \/ chanClosed \/ cancelled) => isClosed)

\* a SendMsg passed the isClosed test and holds the read lock while a Stop()
\* has asked for the write lock and waits for it
C13_Witness ==
  \E s \in Senders, p \in Stoppers :
    /\ sPc[s] = "push"
    /\ s \in rlocks
    /\ stPc[p] = "wait"
    /\ wmu = p

\* ---------------------------------------------------------------- C14
\* C14: once Stop() has called c.cancel() and c.Conn.Close(), the reader and
\* the writer goroutine both eventually return.
C14_TasksExit ==
  (cancelCalls >= 1 /\ connCloseCalls >= 1) ~> (rPc = "done" /\ wPc = "done")

\* Stop() was called from outside and tore the connection down, the reader
\* then left through its own Stop() call, and both goroutines have returned
C14_Witness ==
  /\ stopCalls = 1
  /\ tornDown
  /\ onStopCalls = 2
  /\ rPc = "done"
  /\ wPc = "done"

\* ---------------------------------------------------------------- C15
\* C15: once c.cancel() has run, the writer goroutine starts no further
\* WriteMessage: from its select it never goes on to a write, neither of a
\* frame still in msgChan nor of the zero value received from the closed
\* msgChan.
C15_NoWriteAfterCancel ==
  [][(cancelled /\ wPc = "select") => wPc' # "write"]_vars

\* ---------------------------------------------------------------- C16
\* C16: a SendMsg caller blocked on a full msgChan never makes the reader
\* wait: the reader is never inside SetPingTime's c.Lock() waiting for the
\* read lock of a SendMsg that is itself waiting for room in msgChan.
C16_ReaderNeverWaitsOnSender ==
  ~(/\ rPc = "pingw"
    /\ \E s \in Senders :
         /\ sPc[s] = "push"
         /\ s \in rlocks
         /\ Len(msgChan) = MaxMsgChanLen)

\* ---------------------------------------------------------------- C17
\* C17: global.Server.CallOnConnStop(c) is called while nobody holds the
\* connection's lock.
C17_HookOutsideLock ==
  [][onStopCalls' # onStopCalls => wmu = None]_vars

\* ---------------------------------------------------------------- C18
\* C18: GetConnMgr().Remove(c) is called while the connection's lock is
\* released.
C18_RemoveOutsideLock ==
  [][removeCalls' # removeCalls => (wmu = None /\ rlocks = {})]_vars

\* ---------------------------------------------------------------- C19
\* C19: HeartbeatTime never decreases; it changes only in SetPingTime, which
\* runs once for each decoded frame and stores the time it reads; and a frame
\* is handed to the message handler only after the SetPingTime call for it.
C19_HeartbeatPerFrame ==
  [][/\ HeartbeatTime' >= HeartbeatTime
     /\ HeartbeatTime' # HeartbeatTime => hbUpdates' = hbUpdates + 1
     /\ hbUpdates' # hbUpdates =>
          /\ hbUpdates' = hbUpdates + 1
          /\ hbUpdates = Len(handed)
          /\ rFrame = reads
          /\ HeartbeatTime' = now'
     /\ handed' # handed =>
          /\ handed' = Append(handed, rFrame)
          /\ hbUpdates = Len(handed')]_vars

\* two frames were decoded and handed over, each after its own heartbeat
\* update, and the clock had advanced
C19_Witness ==
  /\ hbUpdates = 2
  /\ Len(handed) = 2
  /\ HeartbeatTime >= 1

\* ---------------------------------------------------------------- C20
\* C20: CallOnConnStart runs at most once, and when the on-disconnect hook
\* has run without any Stop() call from outside (the reader stopped the
\* connection after a failed read), the on-connect hook has already run.
C20_StartHookFirst ==
  /\ onStartCalls <= 1
  /\ (onStopCalls > 0 /\ stopCalls = 0) => onStartCalls = 1

====
